---- MODULE Spec2Model ----
(***************************************************************************)
(* Recykle-Naija backend: the geospatial matching and route sequencing of  *)
(* utils/geoUtils.js, the pickup / user controllers that call it, the      *)
(* authentication middleware, and the handlers that move pickups through   *)
(* their statuses and points through the accounts.                         *)
(*                                                                         *)
(* Number representation.  JavaScript doubles are modelled in fixed point: *)
(*   coordinates   thousandths of a degree   (6.5 degrees   = 6500)        *)
(*   angles        millionths of a radian                                  *)
(*   distances     metres                    (4.446 km      = 4446)        *)
(*   radii         kilometres, as the API takes them                       *)
(* NaN, NULL (SQL null), EMPTY (the empty string) and UNDEFINED (a missing *)
(* argument or query parameter) are values outside every numeric range.    *)
(* The trigonometric series below are accurate for latitudes within 12     *)
(* degrees of the equator and separations of a few degrees, which covers   *)
(* the service area the application is written for (Lagos, 6.5N 3.3E).     *)
(***************************************************************************)
EXTENDS Integers, Sequences, FiniteSets, TLC

NaN == -999999999
NULL == -999999998
EMPTY == -999999997
UNDEFINED == -999999996

\* metres in one kilometre: radii are kilometres, distances are metres
KM == 1000

(***************************************************************************)
(* Bounds of the model                                                     *)
(***************************************************************************)
NumPickers == 2
MaxStops == 3
MaxPickups == 2
MaxCalls == 2

(***************************************************************************)
(* Arithmetic helpers                                                      *)
(***************************************************************************)
\* division truncating toward zero, so that Div(-a, b) = -Div(a, b) as for
\* floating-point division; the dividend is bound first so that it is
\* computed once
Div(a, b) ==
  CHOOSE q \in {IF n >= 0 THEN n \div b ELSE -((-n) \div b) : n \in {a}} : TRUE

RECURSIVE SqrtBetween(_, _, _)
SqrtBetween(n, lo, hi) ==
  IF lo >= hi THEN lo
  ELSE CHOOSE r \in {IF mid * mid <= n THEN SqrtBetween(n, mid, hi)
                                         ELSE SqrtBetween(n, lo, mid - 1) :
                      mid \in {(lo + hi + 1) \div 2}} : TRUE

\* Math.sqrt: the integer square root of n (n is bound first so that it is
\* computed once)
Sqrt(n) == CHOOSE r \in {SqrtBetween(v, 0, 46340) : v \in {n}} : TRUE

\* Math.sin of x (1e-6 rad), result scaled by 1e6: x - x^3/6
Sin(x) == x - Div(Div(x * x, 1000000) * x, 6000000)

\* Math.cos of x (1e-6 rad), result scaled by 1e4: 1 - y^2/2 + y^4/24
Cos(x) ==
  LET y == Div(x, 100)
  IN  10000 - Div(y * y, 20000)
            + Div(Div(y * y, 10000) * Div(y * y, 10000), 240000)

\* Math.atan2(y, x) for 0 <= y < x, y scaled by 1e6 and x by 1e4; the result
\* is in 1e-6 rad: r - r^3/3 with r = y / x
Atan2(y, x) ==
  LET r == Div(y * 10000, x)
  IN  r - Div(Div(r * r, 1000000) * r, 3000000)

\* Math.min, Math.round (x / d rounded to the nearest integer, halves up)
Min(a, b) == IF a <= b THEN a ELSE b
Round(x, d) == (2 * x + d) \div (2 * d)

\* parseFloat of a stored or submitted text value
parseFloat(s) == IF s \in {NULL, EMPTY, UNDEFINED, NaN} THEN NaN ELSE s

\* the truthiness test of JavaScript (!x, x || y) on a number or null
Falsy(x) == x \in {NULL, UNDEFINED, NaN, 0}

\* the truthiness test on a text value: only a missing or empty text is falsy
Blank(s) == s \in {NULL, UNDEFINED, EMPTY}

\* a <= b on numbers: every comparison with NaN is false
Leq(a, b) == a # NaN /\ b # NaN /\ a <= b

(***************************************************************************)
(* geoUtils.js: calculateDistance                                          *)
(***************************************************************************)
toRadians(degrees) == Div(degrees * 17453, 1000)

\* the formula with the cosine of the first latitude taken twice
calculateDistanceOneLatitude(lat1, lon1, lat2, lon2) ==
  IF NaN \in {lat1, lon1, lat2, lon2} THEN NaN
  ELSE LET R    == 6371
           dLat == toRadians(lat2 - lat1)
           dLon == toRadians(lon2 - lon1)
           a    == Sin(Div(dLat, 2)) * Sin(Div(dLat, 2))
                   + Div(Div(Cos(toRadians(lat1)) * Cos(toRadians(lat1)), 10000)
                         * Sin(Div(dLon, 2)), 10000)
                     * Sin(Div(dLon, 2))
           c    == 2 * Atan2(Sqrt(a), Sqrt((1000000 - Div(a, 1000000)) * 100))
       IN  Div(R * c, 1000)

calculateDistance(lat1, lon1, lat2, lon2) ==
  IF NaN \in {lat1, lon1, lat2, lon2} THEN NaN
  ELSE LET R    == 6371
           dLat == toRadians(lat2 - lat1)
           dLon == toRadians(lon2 - lon1)
           a    == Sin(Div(dLat, 2)) * Sin(Div(dLat, 2))
                   + Div(Div(Cos(toRadians(lat1)) * Cos(toRadians(lat2)), 10000)
                         * Sin(Div(dLon, 2)), 10000)
                     * Sin(Div(dLon, 2))
           c    == 2 * Atan2(Sqrt(a), Sqrt((1000000 - Div(a, 1000000)) * 100))
       IN  Div(R * c, 1000)

(***************************************************************************)
(* State                                                                   *)
(***************************************************************************)
VARIABLES
  users,                \* table users: id -> row
  wastePickerProfiles,  \* table waste_picker_profiles: set of rows
  pickupRequests,       \* table pickup_requests: sequence of rows, id = index
  notifications,        \* table notifications: sequence of rows
  transactions,         \* table transactions: sequence of rows
  rewards,              \* table rewards: sequence of rows, id = index
  rewardRedemptions,    \* table reward_redemptions: sequence of rows
  request,              \* the HTTP request passing through the middleware
  now,                  \* new Date(), in hours since the server started
  lastRun,              \* when the hourly reward job last ran, NULL if never
  accepting,            \* acceptPickupRequest calls in progress, by caller
  response,             \* what the last call returned or answered
  startPoint,           \* calculateOptimizedRoute: argument startPoint
  pickupPoints,         \* calculateOptimizedRoute: argument pickupPoints
  pickupPointsGiven,    \* FALSE when pickupPoints is null or undefined
  unvisited,            \* calculateOptimizedRoute: local unvisited
  route,                \* calculateOptimizedRoute: local route
  currentPoint,         \* calculateOptimizedRoute: local currentPoint
  pc,                   \* calculateOptimizedRoute: position in the function
  iterations,           \* calculateOptimizedRoute: passes of the while loop
  calls,                \* calculateOptimizedRoute: calls made with these inputs
  firstRoute            \* what the first of these calls returned

dbVars == <<users, wastePickerProfiles, pickupRequests, notifications>>
clockVars == <<now, lastRun>>
accountVars == <<transactions, rewards, rewardRedemptions, request, now,
                 lastRun, accepting>>
routeVars == <<startPoint, pickupPoints, pickupPointsGiven, unvisited, route,
               currentPoint, pc, iterations, calls, firstRoute>>
vars == <<users, wastePickerProfiles, pickupRequests, notifications,
          transactions, rewards, rewardRedemptions, request, now, lastRun,
          accepting, response,
          startPoint, pickupPoints, pickupPointsGiven, unvisited, route,
          currentPoint, pc, iterations, calls, firstRoute>>

\* user 1 is a household, users 2 .. NumPickers + 1 are drawn from a catalogue
UserIds == 1 .. NumPickers + 1

\* the row a LEFT JOIN yields for a user without a waste picker profile
NoProfile == [serviceRadius |-> NULL, isVerified |-> FALSE,
              specializations |-> {}]

\* users LEFT JOIN waste_picker_profiles ON users.id = profiles.userId
leftJoin(id) ==
  IF \E p \in wastePickerProfiles : p.userId = id
  THEN LET p == CHOOSE q \in wastePickerProfiles : q.userId = id
       IN  [serviceRadius |-> p.serviceRadius, isVerified |-> p.isVerified,
            specializations |-> p.specializations]
  ELSE NoProfile

\* the ids in 1 .. n that satisfy Keep, in table order
SelectIds(n, Keep(_)) == SelectSeq([i \in 1 .. n |-> i], Keep)

\* Array.prototype.filter
filter(s, Keep(_)) == SelectSeq(s, Keep)

\* a sort whose comparator puts an element in front of its equals
RECURSIVE insertByDistanceUnstable(_, _)
insertByDistanceUnstable(sorted, x) ==
  IF sorted = <<>> THEN <<x>>
  ELSE LET last == sorted[Len(sorted)]
       IN  IF x.distance - last.distance <= 0
           THEN Append(insertByDistanceUnstable(
                         SubSeq(sorted, 1, Len(sorted) - 1), x), last)
           ELSE Append(sorted, x)

\* Array.prototype.sort((a, b) => a.distance - b.distance): a stable sort,
\* an element moves in front of exactly those with a larger distance
RECURSIVE insertByDistance(_, _)
insertByDistance(sorted, x) ==
  IF sorted = <<>> THEN <<x>>
  ELSE LET last == sorted[Len(sorted)]
       IN  IF x.distance - last.distance < 0
           THEN Append(insertByDistance(SubSeq(sorted, 1, Len(sorted) - 1), x),
                       last)
           ELSE Append(sorted, x)

\* a sort that leaves the array as it is
sortByDistanceSkipped(s) == s

RECURSIVE sortByDistance(_)
sortByDistance(s) ==
  IF s = <<>> THEN <<>>
  ELSE insertByDistance(sortByDistance(SubSeq(s, 1, Len(s) - 1)), s[Len(s)])

(***************************************************************************)
(* geoUtils.js: findNearbyWastePickers                                     *)
(***************************************************************************)
\* the select of lines 30-51: active waste pickers with both coordinates
activeWastePickers ==
  LET Keep(id) == /\ users[id].role = "waste_picker"
                  /\ users[id].status = "active"
                  /\ users[id].latitude # NULL
                  /\ users[id].longitude # NULL
      ids == SelectIds(NumPickers + 1, Keep)
  IN  [i \in 1 .. Len(ids) |->
         [id |-> ids[i],
          latitude |-> users[ids[i]].latitude,
          longitude |-> users[ids[i]].longitude,
          serviceRadius |-> leftJoin(ids[i]).serviceRadius,
          isVerified |-> leftJoin(ids[i]).isVerified]]

\* the test written as !(distance > maxRadius)
withinReachNegated(latitude, longitude, radiusKm, picker) ==
  LET distance  == calculateDistance(latitude, longitude,
                                     parseFloat(picker.latitude),
                                     parseFloat(picker.longitude))
      maxRadius == Min(radiusKm,
                       IF Falsy(picker.serviceRadius) THEN 10
                       ELSE picker.serviceRadius)
  IN  ~(distance # NaN /\ distance > maxRadius * KM)

\* the filter callback of lines 54-64
withinReach(latitude, longitude, radiusKm, picker) ==
  LET distance  == calculateDistance(latitude, longitude,
                                     parseFloat(picker.latitude),
                                     parseFloat(picker.longitude))
      maxRadius == Min(radiusKm,
                       IF Falsy(picker.serviceRadius) THEN 10
                       ELSE picker.serviceRadius)
  IN  Leq(distance, maxRadius * KM)

\* the map callback of lines 67-75
addDistance(latitude, longitude, picker) ==
  [id |-> picker.id, latitude |-> picker.latitude,
   longitude |-> picker.longitude, serviceRadius |-> picker.serviceRadius,
   isVerified |-> picker.isVerified,
   distance |-> calculateDistance(latitude, longitude,
                                  parseFloat(picker.latitude),
                                  parseFloat(picker.longitude))]

\* a catch block that throws the error again
onQueryErrorRethrown == [threw |-> TRUE, value |-> <<>>]

\* what findNearbyWastePickers does when the query throws (lines 82-85)
onQueryError == [threw |-> FALSE, value |-> <<>>]

\* dbError: the database query rejects
findNearbyWastePickers(latitude, longitude, radiusArg, dbError) ==
  LET radiusKm == IF radiusArg = UNDEFINED THEN 10 ELSE radiusArg
      Keep(picker) == withinReach(latitude, longitude, radiusKm, picker)
      nearbyPickers == filter(activeWastePickers, Keep)
      pickersWithDistance ==
        [i \in 1 .. Len(nearbyPickers) |->
           addDistance(latitude, longitude, nearbyPickers[i])]
  IN  IF dbError THEN onQueryError
      ELSE [threw |-> FALSE, value |-> sortByDistance(pickersWithDistance)]

(***************************************************************************)
(* geoUtils.js: calculateOptimizedRoute, one action per step               *)
(***************************************************************************)
distanceTo(from, point) ==
  calculateDistance(from.latitude, from.longitude,
                    point.latitude, point.longitude)

\* the for loop of lines 112-124: i is the next index to look at
RECURSIVE scanNearest(_, _, _, _, _)
scanNearest(from, list, i, nearestIndex, nearestDistance) ==
  IF i > Len(list) THEN [index |-> nearestIndex, distance |-> nearestDistance]
  ELSE LET distance == distanceTo(from, list[i])
       IN  IF distance < nearestDistance
           THEN scanNearest(from, list, i + 1, i, distance)
           ELSE scanNearest(from, list, i + 1, nearestIndex, nearestDistance)

\* the search without its for loop: the first unvisited point is taken
findNearestFirst(from, list) ==
  [index |-> 1, distance |-> distanceTo(from, list[1])]

\* lines 104-124: index and distance of the nearest unvisited point
findNearest(from, list) ==
  scanNearest(from, list, 2, 1, distanceTo(from, list[1]))

\* a splice that always removes the first element
spliceFirst(list, index) == Tail(list)

\* unvisited.splice(index, 1): the list without its element at index
splice(list, index) ==
  SubSeq(list, 1, index - 1) \o SubSeq(list, index + 1, Len(list))

\* { ...nearestPoint, distanceFromPrevious: nearestDistance }
routeEntry(point, nearestDistance) ==
  [id |-> point.id, latitude |-> point.latitude,
   longitude |-> point.longitude, distanceFromPrevious |-> nearestDistance]

\* the function without its guard of lines 94-96: spreading null throws
RouteEnterUnguarded ==
  /\ pc = "call"
  /\ IF ~pickupPointsGiven
     THEN /\ pc' = "threw"
          /\ UNCHANGED <<unvisited, route, currentPoint>>
     ELSE /\ unvisited' = pickupPoints
          /\ route' = <<>>
          /\ currentPoint' = startPoint
          /\ pc' = "loop"
  /\ UNCHANGED <<dbVars, accountVars, response, startPoint, pickupPoints,
                 pickupPointsGiven, iterations, calls, firstRoute>>

\* the function with route kept at module level: it is not emptied
RouteEnterKeepsRoute ==
  /\ pc = "call"
  /\ IF ~pickupPointsGiven \/ Len(pickupPoints) = 0
     THEN /\ route' = <<>>
          /\ pc' = "done"
          /\ UNCHANGED <<unvisited, currentPoint>>
     ELSE /\ unvisited' = pickupPoints
          /\ route' = route
          /\ currentPoint' = startPoint
          /\ pc' = "loop"
  /\ UNCHANGED <<dbVars, accountVars, response, startPoint, pickupPoints,
                 pickupPointsGiven, iterations, calls, firstRoute>>

\* lines 94-100: the early return, or the set-up of the loop
RouteEnter ==
  /\ pc = "call"
  /\ IF ~pickupPointsGiven \/ Len(pickupPoints) = 0
     THEN /\ route' = <<>>
          /\ pc' = "done"
          /\ UNCHANGED <<unvisited, currentPoint>>
     ELSE /\ unvisited' = pickupPoints
          /\ route' = <<>>
          /\ currentPoint' = startPoint
          /\ pc' = "loop"
  /\ UNCHANGED <<dbVars, accountVars, response, startPoint, pickupPoints,
                 pickupPointsGiven, iterations, calls, firstRoute>>

\* the loop with unvisited = pickupPoints in place of a copy: the splice
\* removes the stop from the caller's list as well
RouteStepAliased ==
  /\ pc = "loop"
  /\ Len(unvisited) > 0
  /\ \E nearest \in {findNearest(currentPoint, unvisited)} :
       LET nearestPoint == unvisited[nearest.index]
       IN
         /\ unvisited' = splice(unvisited, nearest.index)
         /\ pickupPoints' = splice(unvisited, nearest.index)
         /\ route' = Append(route, routeEntry(nearestPoint, nearest.distance))
         /\ currentPoint' = [latitude |-> nearestPoint.latitude,
                             longitude |-> nearestPoint.longitude]
  /\ iterations' = iterations + 1
  /\ UNCHANGED <<dbVars, accountVars, response, startPoint, pickupPointsGiven, pc, calls,
                 firstRoute>>

\* the loop condition written unvisited.length > 1: the route is returned
\* while a stop is still unvisited
RouteReturnEarly ==
  /\ pc = "loop"
  /\ Len(unvisited) <= 1
  /\ pc' = "done"
  /\ UNCHANGED <<dbVars, accountVars, response, startPoint, pickupPoints,
                 pickupPointsGiven, unvisited, route, currentPoint,
                 iterations, calls, firstRoute>>

\* lines 102-134: one pass of the while loop
RouteStep ==
  /\ pc = "loop"
  /\ Len(unvisited) > 0
  /\ \E nearest \in {findNearest(currentPoint, unvisited)} :
       LET nearestPoint == unvisited[nearest.index]
       IN
         /\ unvisited' = splice(unvisited, nearest.index)
         /\ route' = Append(route, routeEntry(nearestPoint, nearest.distance))
         /\ currentPoint' = [latitude |-> nearestPoint.latitude,
                             longitude |-> nearestPoint.longitude]
  /\ iterations' = iterations + 1
  /\ UNCHANGED <<dbVars, accountVars, response, startPoint, pickupPoints,
                 pickupPointsGiven, pc, calls, firstRoute>>

\* lines 102 and 136: the loop condition fails and the route is returned
RouteReturn ==
  /\ pc = "loop"
  /\ Len(unvisited) = 0
  /\ pc' = "done"
  /\ UNCHANGED <<dbVars, accountVars, response, startPoint, pickupPoints,
                 pickupPointsGiven, unvisited, route, currentPoint,
                 iterations, calls, firstRoute>>

\* the caller calls calculateOptimizedRoute again with the same arguments,
\* before it takes the statistics of a route
RouteAgain ==
  /\ pc = "done"
  /\ response.op = "none"
  /\ calls < MaxCalls
  /\ firstRoute' = IF calls = 1 THEN route ELSE firstRoute
  /\ calls' = calls + 1
  /\ iterations' = 0
  /\ pc' = "call"
  /\ UNCHANGED <<dbVars, accountVars, response, startPoint, pickupPoints,
                 pickupPointsGiven, unvisited, route, currentPoint>>

(***************************************************************************)
(* geoUtils.js: getRouteStatistics                                         *)
(***************************************************************************)
\* the reduce of lines 149-151, in metres
RECURSIVE sumDistance(_)
sumDistance(r) ==
  IF r = <<>> THEN 0
  ELSE sumDistance(SubSeq(r, 1, Len(r) - 1))
       + (IF Falsy(r[Len(r)].distanceFromPrevious) THEN 0
          ELSE r[Len(r)].distanceFromPrevious)

\* the statistics with Math.floor in place of Math.round
getRouteStatisticsFloored(r) ==
  IF Len(r) = 0
  THEN [totalDistance |-> 0, totalPoints |-> 0, estimatedTime |-> 0]
  ELSE LET totalDistance == sumDistance(r)
           totalPoints   == Len(r)
           estimatedTime == Div(totalDistance * 60, 30)
                            + (totalPoints * 15) * 1000
       IN  [totalDistance |-> (totalDistance \div 10) * 10,
            totalPoints   |-> totalPoints,
            estimatedTime |-> estimatedTime \div 1000]

\* totalDistance is returned in metres (a multiple of 10: two decimals of a
\* kilometre), estimatedTime in minutes
getRouteStatistics(r) ==
  IF Len(r) = 0
  THEN [totalDistance |-> 0, totalPoints |-> 0, estimatedTime |-> 0]
  ELSE LET totalDistance == sumDistance(r)
           totalPoints   == Len(r)
           \* thousandths of a minute; km / 30 * 60 is metres * 60 / 30
           estimatedTime == Div(totalDistance * 60, 30)
                            + (totalPoints * 15) * 1000
       IN  [totalDistance |-> Round(totalDistance, 10) * 10,
            totalPoints   |-> totalPoints,
            estimatedTime |-> Round(estimatedTime, 1000)]

\* a caller takes the statistics of the route calculateOptimizedRoute returned
RouteStatistics ==
  /\ pc = "done"
  /\ response.op = "none"
  /\ response' = [op |-> "getRouteStatistics", value |-> getRouteStatistics(route)]
  /\ UNCHANGED <<dbVars, accountVars, routeVars>>

(***************************************************************************)
(* userController.js: searchWastePickers                                   *)
(***************************************************************************)
\* the select of lines 763-783; isVerified is the query parameter
searchQuery(isVerified) ==
  LET Keep(id) == /\ users[id].role = "waste_picker"
                  /\ users[id].status = "active"
                  /\ (isVerified = "true" => leftJoin(id).isVerified)
  IN  SelectIds(NumPickers + 1, Keep)

\* the filter callback of lines 788-799
withinRadius(latitude, longitude, radius, id) ==
  IF Blank(users[id].latitude) \/ Blank(users[id].longitude) THEN FALSE
  ELSE Leq(calculateDistance(parseFloat(latitude), parseFloat(longitude),
                             parseFloat(users[id].latitude),
                             parseFloat(users[id].longitude)),
           parseFloat(radius) * KM)

\* the request query; "" stands for an absent text parameter.  The answer
\* lists the ids of the rows returned.
searchWastePickers(q, dbError) ==
  LET radius == IF q.radius = UNDEFINED THEN 10 ELSE q.radius
      wastePickers == searchQuery(q.isVerified)
      Near(id) == withinRadius(q.latitude, q.longitude, radius, id)
      byLocation == IF ~Blank(q.latitude) /\ ~Blank(q.longitude)
                    THEN filter(wastePickers, Near)
                    ELSE wastePickers
      Special(id) == q.specialization \in leftJoin(id).specializations
      filteredPickers == IF q.specialization # ""
                         THEN filter(byLocation, Special)
                         ELSE byLocation
  IN  IF dbError THEN [status |-> 500, data |-> <<>>]
      ELSE [status |-> 200, data |-> filteredPickers]

(***************************************************************************)
(* Inputs                                                                  *)
(***************************************************************************)
\* coordinates around Lagos, thousandths of a degree
Origin == [latitude |-> 6500, longitude |-> 3300]
North4 == [latitude |-> 6540, longitude |-> 3300]   \* 4.4 km from Origin
South4 == [latitude |-> 6460, longitude |-> 3300]   \* 4.4 km from Origin
North8 == [latitude |-> 6570, longitude |-> 3300]   \* 7.8 km from Origin
North11 == [latitude |-> 6600, longitude |-> 3300]  \* 11.1 km from Origin

Household == [role |-> "household", status |-> "active",
              latitude |-> Origin.latitude, longitude |-> Origin.longitude]

Picker(status, latitude, longitude) ==
  [role |-> "waste_picker", status |-> status,
   latitude |-> latitude, longitude |-> longitude]

Profile(serviceRadius, isVerified, specializations) ==
  [hasProfile |-> TRUE, serviceRadius |-> serviceRadius,
   isVerified |-> isVerified, specializations |-> specializations]

Unregistered == [hasProfile |-> FALSE]

\* the users a table is drawn from: every distance against every service
\* radius, and the rows that a query or a filter has to leave out
PickerCatalogue ==
  {[user |-> Picker("active", at.latitude, at.longitude), profile |-> p] :
     at \in {North4, North8, North11},
     p \in {Unregistered} \cup
           {Profile(sr, TRUE, {"plastic"}) : sr \in {0, 5, 15}}}
  \cup
  {[user |-> Picker("active", NULL, NULL), profile |-> Profile(15, TRUE, {"plastic"})],
   [user |-> Picker("active", North4.latitude, NULL), profile |-> Profile(15, TRUE, {"plastic"})],
   [user |-> Picker("active", EMPTY, EMPTY), profile |-> Profile(15, TRUE, {"plastic"})],
   [user |-> Picker("suspended", North4.latitude, North4.longitude), profile |-> Profile(15, TRUE, {"plastic"})],
   [user |-> Picker("active", North4.latitude, North4.longitude), profile |-> Profile(15, FALSE, {})],
   [user |-> Picker("active", South4.latitude, South4.longitude), profile |-> Profile(15, TRUE, {"plastic"})],
   [user |-> Household, profile |-> Unregistered]}

\* the tables that hold the rows of c, a function from picker ids to entries
usersOf(c) == [id \in UserIds |-> IF id = 1 THEN Household ELSE c[id].user]

profilesOf(c) ==
  {[userId |-> id, serviceRadius |-> c[id].profile.serviceRadius,
    isVerified |-> c[id].profile.isVerified,
    specializations |-> c[id].profile.specializations] :
     id \in {i \in 2 .. NumPickers + 1 : c[i].profile.hasProfile}}

NoResponse == [op |-> "none"]

\* no request in flight
NoRequest == [stage |-> "idle"]

\* the tables and the middleware of the specifications that do not use them
AccountIdle ==
  /\ transactions = <<>>
  /\ rewards = <<>>
  /\ rewardRedemptions = <<>>
  /\ request = NoRequest
  /\ now = 0
  /\ lastRun = NULL
  /\ accepting = <<>>

RouteIdle ==
  /\ startPoint = Origin
  /\ pickupPoints = <<>>
  /\ pickupPointsGiven = TRUE
  /\ unvisited = <<>>
  /\ route = <<>>
  /\ currentPoint = Origin
  /\ pc = "idle"
  /\ iterations = 0
  /\ calls = 0
  /\ firstRoute = <<>>

(***************************************************************************)
(* SpecSearch: the two nearby-picker searches over every table             *)
(***************************************************************************)
InitSearch ==
  /\ \E c \in [2 .. NumPickers + 1 -> PickerCatalogue] :
       /\ users = usersOf(c)
       /\ wastePickerProfiles = profilesOf(c)
  /\ pickupRequests = <<>>
  /\ notifications = <<>>
  /\ AccountIdle
  /\ response = NoResponse
  /\ RouteIdle

FindNearbyCall ==
  /\ response = NoResponse
  /\ \E latitude \in {Origin.latitude, NaN}, radiusArg \in {UNDEFINED, 3, 20},
        dbError \in BOOLEAN :
       response' = [op |-> "findNearbyWastePickers",
                    latitude |-> latitude, longitude |-> Origin.longitude,
                    radiusArg |-> radiusArg, dbError |-> dbError,
                    result |-> findNearbyWastePickers(latitude, Origin.longitude,
                                                      radiusArg, dbError)]
  /\ UNCHANGED <<dbVars, accountVars, routeVars>>

SearchCall ==
  /\ response = NoResponse
  /\ \E at \in {Origin, [latitude |-> UNDEFINED, longitude |-> UNDEFINED]},
        radius \in {UNDEFINED, 5}, specialization \in {"", "plastic"},
        isVerified \in {"", "true"}, dbError \in BOOLEAN :
       LET q == [latitude |-> at.latitude, longitude |-> at.longitude,
                 radius |-> radius, specialization |-> specialization,
                 isVerified |-> isVerified]
       IN  response' = [op |-> "searchWastePickers", query |-> q,
                        dbError |-> dbError,
                        result |-> searchWastePickers(q, dbError)]
  /\ UNCHANGED <<dbVars, accountVars, routeVars>>

NextSearch == FindNearbyCall \/ SearchCall

SpecSearch == InitSearch /\ [][NextSearch]_vars

(***************************************************************************)
(* Properties of the searches (SpecSearch)                                 *)
(***************************************************************************)
IsCandidate(id) ==
  users[id].role = "waste_picker" /\ users[id].status = "active"

HasLocation(id) ==
  users[id].latitude \notin {NULL, EMPTY} /\ users[id].longitude \notin {NULL, EMPTY}

DistanceFrom(latitude, longitude, id) ==
  calculateDistance(latitude, longitude,
                    users[id].latitude, users[id].longitude)

\* the service radius a picker declared, 10 when none is stored
DeclaredRadius(id) ==
  IF leftJoin(id).serviceRadius = NULL THEN 10 ELSE leftJoin(id).serviceRadius

FoundIds == {response.result.value[i].id : i \in 1 .. Len(response.result.value)}

FindSucceeded ==
  /\ response.op = "findNearbyWastePickers"
  /\ ~response.dbError
  /\ response.latitude # NaN

RadiusAsked ==
  IF response.radiusArg = UNDEFINED THEN 10 ELSE response.radiusArg

\* C1: findNearbyWastePickers includes a candidate with a location if and
\* only if its distance from the origin is at most min(radiusKm, the
\* candidate's service radius), for every service radius >= 0, a missing
\* service radius counting as 10.
ClaimC1_DualRadius ==
  FindSucceeded =>
    \A id \in UserIds :
      (IsCandidate(id) /\ HasLocation(id)) =>
        (id \in FoundIds <=>
           DistanceFrom(response.latitude, response.longitude, id)
             <= Min(RadiusAsked, DeclaredRadius(id)) * KM)

\* C2: the sequence findNearbyWastePickers returns is non-decreasing in the
\* attached distance for every pair of adjacent elements.
ClaimC2_Sorted ==
  response.op = "findNearbyWastePickers" =>
    \A i \in 1 .. Len(response.result.value) - 1 :
      response.result.value[i].distance <= response.result.value[i + 1].distance

\* two pickers were returned in the opposite of their table order
WitnessC2_Reordered ==
  /\ response.op = "findNearbyWastePickers"
  /\ Len(response.result.value) >= 2
  /\ response.result.value[1].id > response.result.value[2].id
  /\ response.result.value[1].distance < response.result.value[2].distance

\* C12: in the result of findNearbyWastePickers two candidates at the same
\* distance keep the order they had among the candidates (the order of the
\* query's rows, which the model numbers by id).
ClaimC12_StableTies ==
  response.op = "findNearbyWastePickers" =>
    \A i, j \in 1 .. Len(response.result.value) :
      (/\ i < j
       /\ response.result.value[i].distance = response.result.value[j].distance)
        => response.result.value[i].id < response.result.value[j].id

\* two pickers equally far away, one north and one south, were both returned
WitnessC12_TieReturned ==
  /\ response.op = "findNearbyWastePickers"
  /\ \E i, j \in 1 .. Len(response.result.value) :
       /\ i < j
       /\ response.result.value[i].distance = response.result.value[j].distance
       /\ response.result.value[i].latitude # response.result.value[j].latitude

\* C9: findNearbyWastePickers never raises an error to its caller, and when
\* no candidate is within range it returns the empty sequence.
ClaimC9_NeverThrows ==
  response.op = "findNearbyWastePickers" =>
    /\ ~response.result.threw
    /\ (\A id \in UserIds :
          ~(IsCandidate(id) /\ HasLocation(id)
            /\ Leq(DistanceFrom(response.latitude, response.longitude, id),
                   RadiusAsked * KM)))
       => response.result.value = <<>>

\* the query failed, or every located candidate was out of range, and the
\* caller got an empty sequence
WitnessC9_EmptyResult ==
  /\ response.op = "findNearbyWastePickers"
  /\ response.result.value = <<>>
  /\ ~response.result.threw
  /\ \/ response.dbError
     \/ \E id \in UserIds : IsCandidate(id) /\ HasLocation(id)

SearchedNearby ==
  /\ response.op = "searchWastePickers"
  /\ ~response.dbError
  /\ ~Blank(response.query.latitude)
  /\ ~Blank(response.query.longitude)

SearchedIds ==
  {response.result.data[i] : i \in 1 .. Len(response.result.data)}

SearchRadius ==
  IF response.query.radius = UNDEFINED THEN 10 ELSE response.query.radius

\* C10: a candidate without a stored latitude or longitude is left out of
\* the nearby result and never makes the computation fail, in
\* findNearbyWastePickers and in searchWastePickers, and the candidates that
\* do have a location are still evaluated.
ClaimC10_MissingLocationSkipped ==
  /\ response.op = "findNearbyWastePickers" => ~response.result.threw
  /\ FindSucceeded =>
       /\ \A id \in FoundIds : HasLocation(id)
       /\ \A id \in UserIds :
            (/\ IsCandidate(id) /\ HasLocation(id)
             /\ Leq(DistanceFrom(response.latitude, response.longitude, id),
                    Min(RadiusAsked, DeclaredRadius(id)) * KM))
            => id \in FoundIds
  /\ SearchedNearby =>
       /\ response.result.status = 200
       /\ \A id \in SearchedIds : HasLocation(id)
       /\ \A id \in UserIds :
            (/\ IsCandidate(id) /\ HasLocation(id)
             /\ response.query.isVerified = "true" => leftJoin(id).isVerified
             /\ response.query.specialization # ""
                  => response.query.specialization \in leftJoin(id).specializations
             /\ Leq(DistanceFrom(response.query.latitude,
                                 response.query.longitude, id),
                    SearchRadius * KM))
            => id \in SearchedIds

\* a picker without a location sits in the table next to one that was found
WitnessC10_FoundBesideMissing ==
  /\ \E id \in UserIds : IsCandidate(id) /\ ~HasLocation(id)
  /\ \/ FindSucceeded /\ FoundIds # {}
     \/ SearchedNearby /\ SearchedIds # {}

(***************************************************************************)
(* SpecRoute: calculateOptimizedRoute and getRouteStatistics on every      *)
(* start and stop list                                                     *)
(***************************************************************************)
StopCoordinates ==
  {[latitude |-> 6600, longitude |-> 3300],
   [latitude |-> 6500, longitude |-> 3500],
   [latitude |-> 6550, longitude |-> 3310],
   [latitude |-> 6400, longitude |-> 3300]}

StartPoints == {Origin, [latitude |-> 6550, longitude |-> 3310]}

\* the stop lists of n stops; a stop carries its position in the list as id
StopLists(n) ==
  {[i \in 1 .. n |-> [id |-> i, latitude |-> c[i].latitude,
                      longitude |-> c[i].longitude]] :
     c \in [1 .. n -> StopCoordinates]}

InitRoute ==
  /\ users = [id \in UserIds |-> Household]
  /\ wastePickerProfiles = {}
  /\ pickupRequests = <<>>
  /\ notifications = <<>>
  /\ AccountIdle
  /\ response = NoResponse
  /\ startPoint \in StartPoints
  /\ \/ /\ pickupPointsGiven = TRUE
        /\ \E n \in 0 .. MaxStops : pickupPoints \in StopLists(n)
     \/ /\ pickupPointsGiven = FALSE
        /\ pickupPoints = <<>>
  /\ unvisited = <<>>
  /\ route = <<>>
  /\ currentPoint = startPoint
  /\ pc = "call"
  /\ iterations = 0
  /\ calls = 1
  /\ firstRoute = <<>>

NextRoute ==
  RouteEnter \/ RouteStep \/ RouteReturn \/ RouteStatistics \/ RouteAgain

SpecRoute == InitRoute /\ [][NextRoute]_vars

(***************************************************************************)
(* Properties of the route sequencer (SpecRoute)                           *)
(***************************************************************************)
\* the stops held by the route and by the unvisited list together
Held == route \o unvisited

SameStop(entry, stop) ==
  /\ entry.id = stop.id
  /\ entry.latitude = stop.latitude
  /\ entry.longitude = stop.longitude

\* C3: at every iteration the route plus the unvisited list hold exactly the
\* input stops, and on return the route has as many stops as the input with
\* no stop duplicated or dropped.
ClaimC3_Permutation ==
  pc \in {"loop", "done"} =>
    /\ Len(Held) = Len(pickupPoints)
    /\ \A i \in 1 .. Len(pickupPoints) :
         Cardinality({k \in 1 .. Len(Held) : SameStop(Held[k], pickupPoints[i])}) = 1
    /\ pc = "done" => /\ Len(route) = Len(pickupPoints)
                      /\ unvisited = <<>>

\* a full route came back in another order than the stops went in
WitnessC3_Reordered ==
  /\ pc = "done"
  /\ Len(route) = MaxStops
  /\ \E k \in 1 .. Len(route) : route[k].id # k

\* where the sequencer stood before it chose the k-th stop
PositionBefore(k) ==
  IF k = 1 THEN startPoint
  ELSE [latitude |-> route[k - 1].latitude, longitude |-> route[k - 1].longitude]

\* the input stops not visited before the k-th stop
RemainingAt(k) ==
  {i \in 1 .. Len(pickupPoints) : \A j \in 1 .. k - 1 : route[j].id # i}

\* C4: the k-th stop of the route is at minimum distance from the current
\* position among the stops not yet visited, and its distanceFromPrevious
\* is that distance; a single stop is measured from the start.
ClaimC4_NearestNeighbour ==
  pc \in {"loop", "done"} =>
    \A k \in 1 .. Len(route) :
      /\ route[k].distanceFromPrevious = distanceTo(PositionBefore(k), route[k])
      /\ \A i \in RemainingAt(k) :
           route[k].distanceFromPrevious
             <= distanceTo(PositionBefore(k), pickupPoints[i])
      /\ Len(pickupPoints) = 1 =>
           route[1].distanceFromPrevious = distanceTo(startPoint, pickupPoints[1])

\* the scenario of the specification: the third stop is nearest to the start
\* and is visited first
WitnessC4_ThirdStopFirst ==
  /\ pc = "done"
  /\ startPoint = Origin
  /\ Len(route) = 3
  /\ route[1].id = 3
  /\ route[1].distanceFromPrevious < distanceTo(startPoint, pickupPoints[1])

StatisticsTaken == response.op = "getRouteStatistics"

\* the sum of all distanceFromPrevious of the route, in metres
RECURSIVE RouteLength(_)
RouteLength(k) ==
  IF k = 0 THEN 0 ELSE RouteLength(k - 1) + route[k].distanceFromPrevious

\* C5 as stated: totalDistance is the sum of all distanceFromPrevious, the
\* stop count is the route length and the estimated time is
\* (totalDistance / 30) * 60 + stopCount * 15 minutes.
ClaimC5_ExactStatistics ==
  StatisticsTaken =>
    /\ response.value.totalDistance = RouteLength(Len(route))
    /\ response.value.totalPoints = Len(route)
    /\ response.value.estimatedTime * 30 * KM
         = RouteLength(Len(route)) * 60 + Len(route) * 15 * 30 * KM

AbsDiff(a, b) == IF a >= b THEN a - b ELSE b - a

\* C5 amended: totalDistance is the sum rounded to two decimals of a
\* kilometre, the stop count is the route length, and the estimated time is
\* (sum / 30) * 60 + stopCount * 15 minutes rounded to the nearest minute.
ClaimC5_RoundedStatistics ==
  StatisticsTaken =>
    /\ response.value.totalDistance % 10 = 0
    /\ AbsDiff(response.value.totalDistance, RouteLength(Len(route))) * 2 <= 10
    /\ RouteLength(Len(route)) % 10 = 5 =>
         response.value.totalDistance > RouteLength(Len(route))
    /\ response.value.totalPoints = Len(route)
    /\ AbsDiff(response.value.estimatedTime * 30 * KM,
               RouteLength(Len(route)) * 60 + Len(route) * 15 * 30 * KM) * 2
         <= 30 * KM

\* statistics of a route of several stops whose length is no multiple of 10 m
WitnessC5_Rounded ==
  /\ StatisticsTaken
  /\ Len(route) >= 2
  /\ response.value.totalDistance # RouteLength(Len(route))

\* C6: with an empty or absent stop list calculateOptimizedRoute returns an
\* empty route without error and getRouteStatistics of it reports total
\* distance 0 and stop count 0.
ClaimC6_EmptyRoute ==
  (~pickupPointsGiven \/ pickupPoints = <<>>) =>
    /\ pc # "threw"
    /\ pc = "done" => route = <<>>
    /\ StatisticsTaken => /\ response.value.totalDistance = 0
                          /\ response.value.totalPoints = 0

\* the statistics of the route returned for an absent stop list
WitnessC6_AbsentList ==
  /\ ~pickupPointsGiven
  /\ pc = "done"
  /\ route = <<>>
  /\ StatisticsTaken

\* two of the stops are equally far from the start
TieAtStart ==
  \E i, j \in 1 .. Len(pickupPoints) :
    /\ i < j
    /\ distanceTo(startPoint, pickupPoints[i])
         = distanceTo(startPoint, pickupPoints[j])

SpecRouteLive ==
  /\ InitRoute
  /\ [][NextRoute]_vars
  /\ WF_vars(RouteEnter)
  /\ WF_vars(RouteStep)
  /\ WF_vars(RouteReturn)

\* the stops the call was given: none when the list is absent
StopsGiven == IF pickupPointsGiven THEN Len(pickupPoints) ELSE 0

\* C14: calculateOptimizedRoute terminates on every finite stop list: every
\* call returns, the loop has then run exactly once per input stop and no
\* stop is left unvisited, and the loop never runs more often than that.
ClaimC14_Terminates ==
  /\ [](iterations <= StopsGiven)
  /\ [](pc = "done" => (iterations = StopsGiven /\ unvisited = <<>>))
  /\ (pc = "call" ~> pc = "done")

\* a call returned after one pass for each stop of a full list
WitnessC14_FullListReturned ==
  /\ pc = "done"
  /\ Len(pickupPoints) = MaxStops
  /\ iterations = MaxStops
  /\ unvisited = <<>>

(***************************************************************************)
(* SpecFrame: both geoUtils functions called by one caller, who keeps the  *)
(* stop list it passed and reads the tables the candidates came from       *)
(***************************************************************************)
\* the pickers of the caller's tables: one far with a wide radius, one near
\* without a profile
FramePickers ==
  [id \in 2 .. NumPickers + 1 |->
     IF id % 2 = 0
     THEN [user |-> Picker("active", North8.latitude, North8.longitude),
           profile |-> Profile(15, TRUE, {"plastic"})]
     ELSE [user |-> Picker("active", North4.latitude, North4.longitude),
           profile |-> Unregistered]]

InitFrame ==
  /\ users = usersOf(FramePickers)
  /\ wastePickerProfiles = profilesOf(FramePickers)
  /\ pickupRequests = <<>>
  /\ notifications = <<>>
  /\ AccountIdle
  /\ response = NoResponse
  /\ startPoint \in StartPoints
  /\ \/ /\ pickupPointsGiven = TRUE
        /\ \E n \in 0 .. MaxStops : pickupPoints \in StopLists(n)
     \/ /\ pickupPointsGiven = FALSE
        /\ pickupPoints = <<>>
  /\ unvisited = <<>>
  /\ route = <<>>
  /\ currentPoint = startPoint
  /\ pc = "call"
  /\ iterations = 0
  /\ calls = 1
  /\ firstRoute = <<>>

NextFrame == RouteEnter \/ RouteStep \/ RouteReturn \/ FindNearbyCall

SpecFrame == InitFrame /\ [][NextFrame]_vars

\* C13: neither function changes its inputs: through every step of
\* calculateOptimizedRoute the caller's stop list keeps the same elements in
\* the same order (and the start point its coordinates), and
\* findNearbyWastePickers changes no candidate's stored location or service
\* radius.
ClaimC13_InputsUnchanged ==
  [][/\ pickupPoints' = pickupPoints
     /\ pickupPointsGiven' = pickupPointsGiven
     /\ startPoint' = startPoint
     /\ \A id \in UserIds : /\ users'[id].latitude = users[id].latitude
                            /\ users'[id].longitude = users[id].longitude
     /\ wastePickerProfiles' = wastePickerProfiles]_vars

\* a full route came back reordered and a search returned both pickers,
\* while the caller still holds the stop list it passed
WitnessC13_BothCalled ==
  /\ pc = "done"
  /\ Len(route) = MaxStops
  /\ Len(pickupPoints) = MaxStops
  /\ \E k \in 1 .. Len(route) : route[k].id # k
  /\ response.op = "findNearbyWastePickers"
  /\ Len(response.result.value) >= 2

(***************************************************************************)
(* SpecDistance: calculateDistance between every two points of a grid      *)
(* around Lagos, taken in both directions                                  *)
(***************************************************************************)
GeoPoints ==
  {[latitude |-> lat, longitude |-> lon] :
     lat \in {6400, 6460, 6500, 6540, 6600}, lon \in {3300, 3310, 3500}}

InitDistance ==
  /\ users = [id \in UserIds |-> Household]
  /\ wastePickerProfiles = {}
  /\ pickupRequests = <<>>
  /\ notifications = <<>>
  /\ AccountIdle
  /\ response = NoResponse
  /\ RouteIdle

\* a caller measures from a to b and from b to a
DistanceCall ==
  /\ \E a \in GeoPoints, b \in GeoPoints :
       response' = [op |-> "calculateDistance", from |-> a, to |-> b,
                    there |-> calculateDistance(a.latitude, a.longitude,
                                                b.latitude, b.longitude),
                    back |-> calculateDistance(b.latitude, b.longitude,
                                               a.latitude, a.longitude)]
  /\ UNCHANGED <<dbVars, accountVars, routeVars>>

NextDistance == DistanceCall

SpecDistance == InitDistance /\ [][NextDistance]_vars

\* C15: calculateDistance is symmetric: the distance from a to b equals the
\* distance from b to a.
ClaimC15_Symmetric ==
  response.op = "calculateDistance" => response.there = response.back

\* two points that differ in latitude and in longitude, some kilometres apart
WitnessC15_Diagonal ==
  /\ response.op = "calculateDistance"
  /\ response.from.latitude # response.to.latitude
  /\ response.from.longitude # response.to.longitude
  /\ response.there > 20 * KM
  /\ response.there = response.back

(***************************************************************************)
(* pickupController.js: createPickupRequest                                *)
(***************************************************************************)
\* notificationService.createNotification: one more row in notifications
notificationRow(userId, title, pickupRequestId) ==
  [userId |-> userId, title |-> title, pickupRequestId |-> pickupRequestId]

\* the rows the loop of lines 58-66 creates before it ends or throws
fanOut(nearby, count, pickupRequestId) ==
  [i \in 1 .. count |->
     notificationRow(nearby[i].id, "New Pickup Request Available",
                     pickupRequestId)]

\* requester: req.user.id; body: the coordinates of req.body; failure: the
\* await that rejects, if any
createPickupRequest(requester, body, failure) ==
  LET pickup == [requesterId |-> requester,
                 pickupLatitude |-> body.pickupLatitude,
                 pickupLongitude |-> body.pickupLongitude,
                 status |-> "pending"]
      id == Len(pickupRequests) + 1
      confirmation == notificationRow(requester, "Pickup Request Created", id)
      nearbyWastePickers ==
        findNearbyWastePickers(parseFloat(body.pickupLatitude),
                               parseFloat(body.pickupLongitude), 10,
                               failure = "query").value
  IN  /\ Len(pickupRequests) < MaxPickups
      /\ CASE failure = "insert" \/ body.pickupLatitude = UNDEFINED
                                 \/ body.pickupLongitude = UNDEFINED ->
                \* the insert rejects: both columns are NOT NULL
                /\ response' = [op |-> "createPickupRequest", status |-> 500]
                /\ UNCHANGED <<pickupRequests, notifications>>
           [] failure = "confirm" ->
                \* sendPickupRequestNotification rejects after its insert
                /\ pickupRequests' = Append(pickupRequests, pickup)
                /\ notifications' = Append(notifications, confirmation)
                /\ response' = [op |-> "createPickupRequest", status |-> 500]
           [] failure = "notify" ->
                \* createNotification rejects for one of the nearby pickers
                /\ nearbyWastePickers # <<>>
                /\ \E created \in 0 .. Len(nearbyWastePickers) - 1 :
                     notifications' =
                       Append(notifications, confirmation)
                         \o fanOut(nearbyWastePickers, created, id)
                /\ pickupRequests' = Append(pickupRequests, pickup)
                /\ response' = [op |-> "createPickupRequest", status |-> 500]
           [] OTHER ->
                /\ pickupRequests' = Append(pickupRequests, pickup)
                /\ notifications' =
                     Append(notifications, confirmation)
                       \o fanOut(nearbyWastePickers, Len(nearbyWastePickers), id)
                /\ response' = [op |-> "createPickupRequest", status |-> 201,
                                data |-> id]
      /\ UNCHANGED <<users, wastePickerProfiles, accountVars, routeVars>>

(***************************************************************************)
(* pickupController.js: getNearbyPickups                                   *)
(***************************************************************************)
\* a select that leaves out the status condition
pendingPickupsUnfiltered == [i \in 1 .. Len(pickupRequests) |-> i]

\* the select of lines 447-459: the ids of the pending pickup requests
pendingPickups ==
  LET Pending(i) == pickupRequests[i].status = "pending"
  IN  SelectSeq([i \in 1 .. Len(pickupRequests) |-> i], Pending)

\* the distance computed at lines 463-468 and again at lines 475-480
pickupDistance(latitude, longitude, i) ==
  calculateDistance(parseFloat(latitude), parseFloat(longitude),
                    parseFloat(pickupRequests[i].pickupLatitude),
                    parseFloat(pickupRequests[i].pickupLongitude))

\* user: req.user; q: req.query
getNearbyPickups(user, q, dbError) ==
  LET radius == IF q.radius = UNDEFINED THEN 10 ELSE q.radius
      Near(i) == Leq(pickupDistance(q.latitude, q.longitude, i),
                     parseFloat(radius) * KM)
      filteredPickups == filter(pendingPickups, Near)
      pickupsWithDistance ==
        [k \in 1 .. Len(filteredPickups) |->
           [id |-> filteredPickups[k],
            distance |-> pickupDistance(q.latitude, q.longitude,
                                        filteredPickups[k])]]
  IN  IF users[user].role # "waste_picker" THEN [status |-> 403, data |-> <<>>]
      ELSE IF Blank(q.latitude) \/ Blank(q.longitude)
           THEN [status |-> 400, data |-> <<>>]
      ELSE IF dbError THEN [status |-> 500, data |-> <<>>]
      ELSE [status |-> 200, data |-> sortByDistance(pickupsWithDistance)]

(***************************************************************************)
(* Spec: the pickup handlers over a users table                            *)
(***************************************************************************)
\* the rows of the catalogue that decide who is told of a new pickup
HandlerCatalogue ==
  {[user |-> Picker("active", North4.latitude, North4.longitude), profile |-> Unregistered],
   [user |-> Picker("active", North4.latitude, North4.longitude), profile |-> Profile(0, TRUE, {"plastic"})],
   [user |-> Picker("active", North8.latitude, North8.longitude), profile |-> Profile(5, TRUE, {"plastic"})],
   [user |-> Picker("active", North8.latitude, North8.longitude), profile |-> Profile(15, TRUE, {"plastic"})],
   [user |-> Picker("active", NULL, NULL), profile |-> Profile(15, TRUE, {"plastic"})],
   [user |-> Picker("suspended", North4.latitude, North4.longitude), profile |-> Profile(15, TRUE, {"plastic"})]}

\* a pickup request that a waste picker accepted earlier
AcceptedEarlier ==
  [requesterId |-> 1, pickupLatitude |-> Origin.latitude,
   pickupLongitude |-> Origin.longitude, status |-> "accepted"]

Init ==
  /\ \E c \in [2 .. NumPickers + 1 -> HandlerCatalogue] :
       /\ users = usersOf(c)
       /\ wastePickerProfiles = profilesOf(c)
  /\ pickupRequests \in {<<>>, <<AcceptedEarlier>>}
  /\ notifications = <<>>
  /\ AccountIdle
  /\ response = NoResponse
  /\ RouteIdle

CreatePickupRequest ==
  \E at \in {Origin, North11, [latitude |-> UNDEFINED, longitude |-> UNDEFINED]},
     failure \in {"none", "insert", "confirm", "query", "notify"} :
    createPickupRequest(1, [pickupLatitude |-> at.latitude,
                            pickupLongitude |-> at.longitude], failure)

\* the requests made of getNearbyPickups: by a household, without
\* coordinates, with a failing database, and with and without a radius
NearbyRequests ==
  {[user |-> 1, latitude |-> North4.latitude, longitude |-> North4.longitude,
    radius |-> UNDEFINED, dbError |-> FALSE],
   [user |-> 2, latitude |-> UNDEFINED, longitude |-> UNDEFINED,
    radius |-> UNDEFINED, dbError |-> FALSE],
   [user |-> 2, latitude |-> North4.latitude, longitude |-> North4.longitude,
    radius |-> UNDEFINED, dbError |-> TRUE],
   [user |-> 2, latitude |-> North4.latitude, longitude |-> North4.longitude,
    radius |-> UNDEFINED, dbError |-> FALSE],
   [user |-> 2, latitude |-> North4.latitude, longitude |-> North4.longitude,
    radius |-> 5, dbError |-> FALSE]}

GetNearbyPickups ==
  /\ \E r \in NearbyRequests :
       LET q == [latitude |-> r.latitude, longitude |-> r.longitude,
                 radius |-> r.radius]
       IN  response' = [op |-> "getNearbyPickups", user |-> r.user,
                        query |-> q, dbError |-> r.dbError,
                        result |-> getNearbyPickups(r.user, q, r.dbError)]
  /\ UNCHANGED <<dbVars, accountVars, routeVars>>

Next == CreatePickupRequest \/ GetNearbyPickups

Spec == Init /\ [][Next]_vars

(***************************************************************************)
(* Properties of the pickup handlers (Spec)                                *)
(***************************************************************************)
PickupDistanceFrom(i, id) ==
  calculateDistance(pickupRequests[i].pickupLatitude,
                    pickupRequests[i].pickupLongitude,
                    users[id].latitude, users[id].longitude)

\* C7: createPickupRequest creates a 'New Pickup Request Available'
\* notification for a waste picker only if that picker is active, verified,
\* has a stored location and lies within min(10 km, the picker's service
\* radius) of the new pickup.
ClaimC7_FanOutOnlyToEligible ==
  \A n \in 1 .. Len(notifications) :
    notifications[n].title = "New Pickup Request Available" =>
      LET id == notifications[n].userId
      IN  /\ users[id].role = "waste_picker"
          /\ users[id].status = "active"
          /\ leftJoin(id).isVerified
          /\ HasLocation(id)
          /\ PickupDistanceFrom(notifications[n].pickupRequestId, id)
               <= Min(10, DeclaredRadius(id)) * KM

NearbyAnswered ==
  response.op = "getNearbyPickups" /\ response.result.status = 200

NearbyIds ==
  {response.result.data[k].id : k \in 1 .. Len(response.result.data)}

NearbyRadius ==
  IF response.query.radius = UNDEFINED THEN 10 ELSE response.query.radius

DistanceToPickup(i) ==
  calculateDistance(response.query.latitude, response.query.longitude,
                    pickupRequests[i].pickupLatitude,
                    pickupRequests[i].pickupLongitude)

\* C8: getNearbyPickups returns exactly the pickup requests that are pending
\* and at most radius (10 when none is given) from the query point, each
\* with its distance, in non-decreasing order of distance.
ClaimC8_NearbyPendingPickups ==
  /\ (/\ response.op = "getNearbyPickups"
      /\ users[response.user].role = "waste_picker"
      /\ ~Blank(response.query.latitude) /\ ~Blank(response.query.longitude)
      /\ ~response.dbError) => response.result.status = 200
  /\ NearbyAnswered =>
       /\ NearbyIds = {i \in 1 .. Len(pickupRequests) :
                         /\ pickupRequests[i].status = "pending"
                         /\ DistanceToPickup(i) <= NearbyRadius * KM}
       /\ Cardinality(NearbyIds) = Len(response.result.data)
       /\ \A k \in 1 .. Len(response.result.data) :
            response.result.data[k].distance
              = DistanceToPickup(response.result.data[k].id)
       /\ \A k \in 1 .. Len(response.result.data) - 1 :
            response.result.data[k].distance
              <= response.result.data[k + 1].distance

\* a pending pickup was returned while an accepted one within the radius
\* was left out
WitnessC8_PendingOnly ==
  /\ NearbyAnswered
  /\ response.result.data # <<>>
  /\ \E i \in 1 .. Len(pickupRequests) :
       /\ pickupRequests[i].status # "pending"
       /\ DistanceToPickup(i) <= NearbyRadius * KM

(***************************************************************************)
(* middleware/auth.js: authenticateToken and requireRole                   *)
(***************************************************************************)
\* the id of a user who was deleted after the token was signed, and the id
\* 'mock-user-1' of the user the middleware makes up
DeletedUserId == 0
MockUserId == -1

NoUser == [id |-> NULL, role |-> "none", status |-> "none"]

\* the req.user assigned when jwt.verify throws
MockUser == [id |-> MockUserId, role |-> "household", status |-> "active"]

\* the select of the user by decoded.userId; when the query rejects, the row
\* is made up from the token's claims
lookupUser(decoded, dbError) ==
  IF dbError
  THEN <<[id |-> decoded.userId, role |-> decoded.role, status |-> "active"]>>
  ELSE IF decoded.userId \in DOMAIN users
       THEN <<[id |-> decoded.userId, role |-> users[decoded.userId].role,
               status |-> users[decoded.userId].status]>>
       ELSE <<>>

\* authenticateToken: next is TRUE when the middleware calls next(), else
\* status and message are the answer it sends
authenticateToken(token, dbError) ==
  IF token.kind = "missing"
  THEN [next |-> FALSE, user |-> NoUser, status |-> 401,
        message |-> "Access token required"]
  ELSE IF token.kind = "invalid"
  THEN [next |-> TRUE, user |-> MockUser, status |-> 0, message |-> ""]
  ELSE LET user == lookupUser(token, dbError)
       IN  IF Len(user) = 0
           THEN [next |-> FALSE, user |-> NoUser, status |-> 401,
                 message |-> "Invalid token - user not found"]
           ELSE IF user[1].status = "suspended"
           THEN [next |-> FALSE, user |-> NoUser, status |-> 403,
                 message |-> "Account suspended"]
           ELSE [next |-> TRUE, user |-> user[1], status |-> 0,
                 message |-> ""]

\* the middleware requireRole(roles) returns
requireRole(roles, user) ==
  IF user = NoUser
  THEN [next |-> FALSE, status |-> 401, message |-> "Authentication required"]
  ELSE IF user.role \notin roles
  THEN [next |-> FALSE, status |-> 403, message |-> "Insufficient permissions"]
  ELSE [next |-> TRUE, status |-> 0, message |-> ""]

(***************************************************************************)
(* SpecAuth: requests passing through the middleware of a route            *)
(***************************************************************************)
\* routes of app.js: guarded is TRUE when requireRole is mounted
Routes ==
  {[path |-> "GET /api/pickups", guarded |-> FALSE, roles |-> {}],
   [path |-> "POST /api/pickups", guarded |-> TRUE, roles |-> {"household"}],
   [path |-> "PATCH /api/pickups/:id/accept", guarded |-> TRUE,
    roles |-> {"waste_picker"}],
   [path |-> "GET /api/users", guarded |-> TRUE,
    roles |-> {"admin", "government"}]}

\* user 1 is a household; of the waste pickers every second one is suspended
AuthUsers ==
  [id \in UserIds |->
     IF id = 1 THEN Household
     ELSE IF id % 2 = 0
          THEN Picker("active", North4.latitude, North4.longitude)
          ELSE Picker("suspended", North4.latitude, North4.longitude)]

\* what the Authorization header can carry: nothing, a token jwt.verify
\* rejects, or a token signed at login for a user with the role held then
Tokens ==
  {[kind |-> "missing", userId |-> NULL, role |-> "none"],
   [kind |-> "invalid", userId |-> NULL, role |-> "none"],
   [kind |-> "valid", userId |-> DeletedUserId, role |-> "household"]}
  \cup {[kind |-> "valid", userId |-> id, role |-> AuthUsers[id].role] :
          id \in UserIds}

InitAuth ==
  /\ users = AuthUsers
  /\ wastePickerProfiles = {}
  /\ pickupRequests = <<>>
  /\ notifications = <<>>
  /\ transactions = <<>>
  /\ rewards = <<>>
  /\ rewardRedemptions = <<>>
  /\ request = NoRequest
  /\ now = 0
  /\ lastRun = NULL
  /\ accepting = <<>>
  /\ response = NoResponse
  /\ RouteIdle

\* express hands a request to the first middleware of its route
Receive ==
  /\ request.stage = "idle"
  /\ \E token \in Tokens, mounted \in Routes, dbError \in BOOLEAN :
       request' = [stage |-> "authenticateToken", token |-> token,
                   route |-> mounted, dbError |-> dbError, user |-> NoUser,
                   passed |-> FALSE, handled |-> FALSE, status |-> 0,
                   message |-> ""]
  /\ UNCHANGED <<dbVars, transactions, rewards, rewardRedemptions, clockVars, accepting,
                 response,
                 routeVars>>

AuthenticateToken ==
  /\ request.stage = "authenticateToken"
  /\ LET r == authenticateToken(request.token, request.dbError)
     IN  request' =
           IF r.next
           THEN [request EXCEPT !.user = r.user, !.passed = TRUE,
                                !.stage = IF request.route.guarded
                                          THEN "requireRole" ELSE "handler"]
           ELSE [request EXCEPT !.stage = "answered", !.status = r.status,
                                !.message = r.message]
  /\ UNCHANGED <<dbVars, transactions, rewards, rewardRedemptions, clockVars, accepting,
                 response,
                 routeVars>>

RequireRole ==
  /\ request.stage = "requireRole"
  /\ LET r == requireRole(request.route.roles, request.user)
     IN  request' =
           IF r.next
           THEN [request EXCEPT !.stage = "handler"]
           ELSE [request EXCEPT !.stage = "answered", !.status = r.status,
                                !.message = r.message]
  /\ UNCHANGED <<dbVars, transactions, rewards, rewardRedemptions, clockVars, accepting,
                 response,
                 routeVars>>

\* the route handler runs and answers
RouteHandler ==
  /\ request.stage = "handler"
  /\ request' = [request EXCEPT !.stage = "answered", !.handled = TRUE,
                                !.status = 200]
  /\ UNCHANGED <<dbVars, transactions, rewards, rewardRedemptions, clockVars, accepting,
                 response,
                 routeVars>>

\* the answer is sent and the next request can come
Answered ==
  /\ request.stage = "answered"
  /\ response' = [op |-> "http", path |-> request.route.path,
                  status |-> request.status, message |-> request.message]
  /\ request' = NoRequest
  /\ UNCHANGED <<dbVars, transactions, rewards, rewardRedemptions, clockVars, accepting,
                 routeVars>>

NextAuth ==
  Receive \/ AuthenticateToken \/ RequireRole \/ RouteHandler \/ Answered

SpecAuth == InitAuth /\ [][NextAuth]_vars

(***************************************************************************)
(* Properties of the middleware (SpecAuth)                                 *)
(***************************************************************************)
InFlight == request.stage # "idle"

\* the bearer token verifies and names a user of the table who is not
\* suspended
VerifiedActiveUser ==
  /\ request.token.kind = "valid"
  /\ request.token.userId \in DOMAIN users
  /\ users[request.token.userId].status # "suspended"

\* C16: authenticateToken passes a request on only when the bearer token
\* verifies and resolves to an existing user who is not suspended; a request
\* with a missing or invalid token is rejected and never reaches the handler.
ClaimC16_OnlyVerifiedPass ==
  InFlight =>
    /\ request.passed => VerifiedActiveUser
    /\ request.token.kind \in {"missing", "invalid"} =>
         /\ ~request.handled
         /\ request.stage = "answered" => request.status \in {401, 403}

\* C17: a handler behind requireRole(roles) runs only for a request whose
\* authenticated user has a role in roles; any other request is answered 401
\* or 403 and the handler is not invoked.
ClaimC17_RoleGuard ==
  (InFlight /\ request.route.guarded) =>
    /\ request.handled =>
         /\ request.token.kind = "valid"
         /\ request.user.role \in request.route.roles
    /\ (/\ request.stage = "answered"
        /\ ~(/\ request.token.kind = "valid"
             /\ request.user.role \in request.route.roles))
         => /\ ~request.handled
            /\ request.status \in {401, 403}

(***************************************************************************)
(* pickupController.js: acceptPickupRequest                                *)
(***************************************************************************)
\* a row of pickup_requests with the columns the handlers below read and
\* write; weights are in hundredths of a kilogram
Pickup(status, wastePickerId, estimatedWeight) ==
  [requesterId |-> 1, pickupLatitude |-> Origin.latitude,
   pickupLongitude |-> Origin.longitude, status |-> status,
   wastePickerId |-> wastePickerId, estimatedWeight |-> estimatedWeight,
   actualWeight |-> NULL, pointsEarned |-> 0, rating |-> NULL]

\* the handler without the status check of lines 231-236
acceptPickupRequestAnyStatus(caller, id, failure) ==
  LET wastePickerId == caller
      found == id \in 1 .. Len(pickupRequests)
      answer(status) == [op |-> "acceptPickupRequest", caller |-> caller,
                         id |-> id, status |-> status,
                         before |-> pickupRequests]
  IN  IF users[caller].role # "waste_picker"
      THEN /\ response' = answer(403)
           /\ UNCHANGED <<pickupRequests, notifications>>
      ELSE IF ~found
      THEN /\ response' = answer(404)
           /\ UNCHANGED <<pickupRequests, notifications>>
      ELSE IF FALSE
      THEN /\ response' = answer(400)
           /\ UNCHANGED <<pickupRequests, notifications>>
      ELSE /\ pickupRequests' =
                [pickupRequests EXCEPT ![id].wastePickerId = wastePickerId,
                                       ![id].status = "accepted"]
           /\ notifications' =
                Append(notifications,
                       notificationRow(pickupRequests[id].requesterId,
                                       "Pickup Request Accepted", id))
           /\ response' = answer(IF failure THEN 500 ELSE 200)

\* caller: req.user.id; id: req.params.id; failure: the e-mail of
\* sendPickupAcceptedNotification rejects after the rows are written
acceptPickupRequest(caller, id, failure) ==
  LET wastePickerId == caller
      found == id \in 1 .. Len(pickupRequests)
      answer(status) == [op |-> "acceptPickupRequest", caller |-> caller,
                         id |-> id, status |-> status,
                         before |-> pickupRequests]
  IN  IF users[caller].role # "waste_picker"
      THEN /\ response' = answer(403)
           /\ UNCHANGED <<pickupRequests, notifications>>
      ELSE IF ~found
      THEN /\ response' = answer(404)
           /\ UNCHANGED <<pickupRequests, notifications>>
      ELSE IF pickupRequests[id].status # "pending"
      THEN /\ response' = answer(400)
           /\ UNCHANGED <<pickupRequests, notifications>>
      ELSE /\ pickupRequests' =
                [pickupRequests EXCEPT ![id].wastePickerId = wastePickerId,
                                       ![id].status = "accepted"]
           /\ notifications' =
                Append(notifications,
                       notificationRow(pickupRequests[id].requesterId,
                                       "Pickup Request Accepted", id))
           /\ response' = answer(IF failure THEN 500 ELSE 200)

(***************************************************************************)
(* SpecAccept: acceptPickupRequest, one request at a time, over tables of  *)
(* pickups in every status                                                 *)
(***************************************************************************)
AcceptCatalogue ==
  {Pickup("pending", NULL, 250), Pickup("accepted", 2, 250),
   Pickup("completed", 2, 250), Pickup("cancelled", NULL, 250)}

\* user 1 is a household, the others are active waste pickers
AcceptUsers ==
  [id \in UserIds |->
     IF id = 1 THEN Household
     ELSE Picker("active", North4.latitude, North4.longitude)]

InitAccept ==
  /\ users = AcceptUsers
  /\ wastePickerProfiles = {}
  /\ \E n \in 1 .. MaxPickups : pickupRequests \in [1 .. n -> AcceptCatalogue]
  /\ notifications = <<>>
  /\ AccountIdle
  /\ response = NoResponse
  /\ RouteIdle

AcceptPickupRequest ==
  /\ \E caller \in UserIds, id \in 1 .. MaxPickups, failure \in BOOLEAN :
       acceptPickupRequest(caller, id, failure)
  /\ UNCHANGED <<users, wastePickerProfiles, accountVars, routeVars>>

NextAccept == AcceptPickupRequest

SpecAccept == InitAccept /\ [][NextAccept]_vars

\* the last call was made by a waste picker on a pickup of the table
AcceptedOrRefused ==
  /\ response.op = "acceptPickupRequest"
  /\ users[response.caller].role = "waste_picker"
  /\ response.id \in 1 .. Len(response.before)

\* C18: acceptPickupRequest succeeds only on a pickup whose status is
\* 'pending', and then the pickup has status 'accepted' and the caller as
\* wastePickerId; on a pickup in any other status it answers 400 and leaves
\* the pickup unchanged.
ClaimC18_AcceptOnlyPending ==
  AcceptedOrRefused =>
    /\ response.status = 200 =>
         /\ response.before[response.id].status = "pending"
         /\ pickupRequests[response.id].status = "accepted"
         /\ pickupRequests[response.id].wastePickerId = response.caller
    /\ response.before[response.id].status # "pending" =>
         /\ response.status = 400
         /\ pickupRequests = response.before

\* a pending pickup was accepted, and a later call on it was refused
WitnessC18_AcceptedThenRefused ==
  /\ AcceptedOrRefused
  /\ response.status = 400
  /\ response.before[response.id].status = "accepted"
  /\ response.before[response.id].wastePickerId # response.caller
  /\ response.before[response.id].wastePickerId # 2
  /\ pickupRequests = response.before

(***************************************************************************)
(* pickupController.js: updatePickupStatus                                 *)
(***************************************************************************)
MaxTransactions == 2

\* a row of users with its points and its rating (in hundredths of a star)
Account(role, totalPoints, availablePoints) ==
  [role |-> role, status |-> "active", latitude |-> NULL, longitude |-> NULL,
   totalPoints |-> totalPoints, availablePoints |-> availablePoints,
   rating |-> NULL, totalRatings |-> 0]

\* Math.floor(weight * 10) for a weight in hundredths of a kilogram
pointsFor(weight) == (weight * 10) \div 100

\* actualWeight || pickupData.estimatedWeight || 1: a number of the body is
\* falsy when it is 0, a decimal column only when it is null
weightOf(actualWeight, estimatedWeight) ==
  IF ~Falsy(actualWeight) THEN actualWeight
  ELSE IF ~Blank(estimatedWeight) THEN estimatedWeight
  ELSE 100

\* the row inserted at lines 340-348
transactionRow(userId, pickupRequestId, points) ==
  [userId |-> userId, pickupRequestId |-> pickupRequestId,
   type |-> "pickup_payment", points |-> points, status |-> "completed"]

\* the average of lines 372-375, in hundredths of a star
newRatingOf(wastePicker, rating) ==
  LET currentRating == IF Falsy(wastePicker.rating) THEN 0
                       ELSE wastePicker.rating
      totalRatings == wastePicker.totalRatings
  IN  Div(currentRating * totalRatings + rating * 100, totalRatings + 1)

\* caller: req.user.id; id: req.params.id; body: req.body; failure: the await
\* that rejects, if any ("update": the update of the pickup, "notify": the
\* notification after it)
updatePickupStatus(caller, id, body, failure) ==
  LET found == id \in 1 .. Len(pickupRequests)
      pickupData == pickupRequests[id]
      role == users[caller].role
      completed == body.status = "completed"
      weight == weightOf(body.actualWeight, pickupData.estimatedWeight)
      pointsEarned == pointsFor(weight)
      rated == ~Falsy(body.rating) /\ role = "household"
      ratesPicker == rated /\ pickupData.wastePickerId # NULL
      credited ==
        IF completed
        THEN [users EXCEPT
                ![pickupData.requesterId].totalPoints = @ + pointsEarned,
                ![pickupData.requesterId].availablePoints = @ + pointsEarned]
        ELSE users
      usersAfter ==
        IF ratesPicker
        THEN [credited EXCEPT
                ![pickupData.wastePickerId].rating =
                   newRatingOf(credited[pickupData.wastePickerId], body.rating),
                ![pickupData.wastePickerId].totalRatings = @ + 1]
        ELSE credited
      transactionsAfter ==
        IF completed
        THEN Append(transactions,
                    transactionRow(pickupData.requesterId, id, pointsEarned))
        ELSE transactions
      updatedPickup ==
        [pickupData EXCEPT
           !.status = body.status,
           !.actualWeight = IF completed /\ ~Falsy(body.actualWeight)
                            THEN body.actualWeight ELSE @,
           !.pointsEarned = IF completed THEN pointsEarned ELSE @,
           !.rating = IF rated THEN body.rating ELSE @]
      answer(status) ==
        [op |-> "updatePickupStatus", caller |-> caller, id |-> id,
         body |-> body, status |-> status,
         before |-> [users |-> users, pickupRequests |-> pickupRequests,
                     transactions |-> transactions]]
  IN  /\ Len(transactions) < MaxTransactions
      /\ IF ~found
         THEN /\ response' = answer(404)
              /\ UNCHANGED <<users, pickupRequests, transactions,
                             notifications>>
         ELSE IF \/ role = "household" /\ pickupData.requesterId # caller
                 \/ role = "waste_picker" /\ pickupData.wastePickerId # caller
         THEN /\ response' = answer(403)
              /\ UNCHANGED <<users, pickupRequests, transactions,
                             notifications>>
         ELSE /\ users' = usersAfter
              /\ transactions' = transactionsAfter
              /\ pickupRequests' =
                   IF failure = "update" THEN pickupRequests
                   ELSE [pickupRequests EXCEPT ![id] = updatedPickup]
              /\ notifications' =
                   IF completed /\ failure = "none"
                   THEN Append(notifications,
                               notificationRow(pickupData.requesterId,
                                               "Pickup Completed", id))
                   ELSE notifications
              /\ response' = answer(IF failure = "none" THEN 200 ELSE 500)

(***************************************************************************)
(* SpecStatus: updatePickupStatus, one request at a time, on pickups that  *)
(* waste picker 2 accepted                                                 *)
(***************************************************************************)
StatusUsers ==
  [id \in UserIds |->
     IF id = 1 THEN Account("household", 150, 100)
     ELSE Account("waste_picker", 0, 0)]

StatusCatalogue ==
  {Pickup("accepted", 2, 250), Pickup("accepted", 2, NULL),
   Pickup("in_progress", 2, 75)}

\* the requests made of updatePickupStatus: completion with and without an
\* actual weight, by the picker, by the requester with a rating and by a
\* picker who was not assigned, other status changes, and failing awaits
StatusRequests ==
  {[caller |-> 2, status |-> "completed", actualWeight |-> UNDEFINED,
    rating |-> UNDEFINED, failure |-> "none"],
   [caller |-> 2, status |-> "completed", actualWeight |-> 125,
    rating |-> UNDEFINED, failure |-> "none"],
   [caller |-> 2, status |-> "completed", actualWeight |-> 0,
    rating |-> UNDEFINED, failure |-> "none"],
   [caller |-> 2, status |-> "completed", actualWeight |-> 125,
    rating |-> UNDEFINED, failure |-> "update"],
   [caller |-> 2, status |-> "completed", actualWeight |-> 125,
    rating |-> UNDEFINED, failure |-> "notify"],
   [caller |-> 3, status |-> "completed", actualWeight |-> 125,
    rating |-> UNDEFINED, failure |-> "none"],
   [caller |-> 1, status |-> "completed", actualWeight |-> UNDEFINED,
    rating |-> 4, failure |-> "none"],
   [caller |-> 2, status |-> "in_progress", actualWeight |-> UNDEFINED,
    rating |-> UNDEFINED, failure |-> "none"],
   [caller |-> 1, status |-> "cancelled", actualWeight |-> UNDEFINED,
    rating |-> UNDEFINED, failure |-> "none"]}

InitStatus ==
  /\ users = StatusUsers
  /\ wastePickerProfiles = {}
  /\ \E n \in 1 .. MaxPickups : pickupRequests \in [1 .. n -> StatusCatalogue]
  /\ notifications = <<>>
  /\ AccountIdle
  /\ response = NoResponse
  /\ RouteIdle

UpdatePickupStatus ==
  /\ \E r \in StatusRequests, id \in 1 .. MaxPickups :
       updatePickupStatus(r.caller, id,
                          [status |-> r.status, actualWeight |-> r.actualWeight,
                           rating |-> r.rating], r.failure)
  /\ UNCHANGED <<wastePickerProfiles, rewards, rewardRedemptions, request,
                 clockVars, accepting, routeVars>>

NextStatus == UpdatePickupStatus

SpecStatus == InitStatus /\ [][NextStatus]_vars

\* the last call set a pickup to 'completed' and answered 200
Completed ==
  /\ response.op = "updatePickupStatus"
  /\ response.status = 200
  /\ response.body.status = "completed"

\* the weight the claim names: the actual weight if the body gives one, else
\* the estimated weight if the pickup has one, else 1 kg
ClaimedWeight ==
  IF response.body.actualWeight # UNDEFINED THEN response.body.actualWeight
  ELSE IF response.before.pickupRequests[response.id].estimatedWeight # NULL
       THEN response.before.pickupRequests[response.id].estimatedWeight
       ELSE 100

\* C19: when updatePickupStatus sets a pickup to 'completed', the requester's
\* totalPoints and availablePoints each increase by floor(10 * weight), the
\* pickup's pointsEarned is that value and one completed transaction with
\* that many points is recorded for the requester.
ClaimC19_PointsCredited ==
  Completed =>
    LET requester == response.before.pickupRequests[response.id].requesterId
        points == (ClaimedWeight * 10) \div 100
    IN  /\ users[requester].totalPoints
             = response.before.users[requester].totalPoints + points
        /\ users[requester].availablePoints
             = response.before.users[requester].availablePoints + points
        /\ pickupRequests[response.id].status = "completed"
        /\ pickupRequests[response.id].pointsEarned = points
        /\ Len(transactions) = Len(response.before.transactions) + 1
        /\ transactions[Len(transactions)].userId = requester
        /\ transactions[Len(transactions)].pickupRequestId = response.id
        /\ transactions[Len(transactions)].points = points
        /\ transactions[Len(transactions)].status = "completed"

(***************************************************************************)
(* rewardsController.js: redeemReward                                      *)
(***************************************************************************)
MaxRewards == 2
MaxRedemptions == 2

\* a row of rewards; stockQuantity is NULL when stock is not tracked, and
\* expiryDate is NULL when the reward never expires
Reward(pointsCost, stockQuantity, isActive) ==
  [pointsCost |-> pointsCost, stockQuantity |-> stockQuantity,
   isActive |-> isActive, expiryDate |-> NULL]

\* the row inserted at lines 142-153
redemptionRow(userId, rewardId, pointsUsed) ==
  [userId |-> userId, rewardId |-> rewardId, pointsUsed |-> pointsUsed,
   status |-> "pending"]

\* an update that takes the cost from both point columns
spendPointsOfBoth(user, pointsCost) ==
  [user EXCEPT !.availablePoints = @ - pointsCost,
               !.totalPoints = @ - pointsCost]

\* the set clause of lines 156-162
spendPoints(user, pointsCost) ==
  [user EXCEPT !.availablePoints = @ - pointsCost]

\* caller: req.user.id, whose row req.user was read by authenticateToken;
\* rewardId: req.body.rewardId; failure: the await that rejects, if any
\* ("points": the update of users, "notify": the notification or the e-mail)
redeemReward(caller, rewardId, failure) ==
  LET userId == caller
      found == rewardId \in 1 .. Len(rewards)
      rewardData == rewards[rewardId]
      answer(status, message) ==
        [op |-> "redeemReward", caller |-> caller, rewardId |-> rewardId,
         status |-> status, message |-> message,
         before |-> [users |-> users, rewards |-> rewards,
                     rewardRedemptions |-> rewardRedemptions]]
      refuse(status, message) ==
        /\ response' = answer(status, message)
        /\ UNCHANGED <<users, rewards, rewardRedemptions, notifications>>
  IN  /\ Len(rewardRedemptions) < MaxRedemptions
      /\ IF ~found THEN refuse(404, "Reward not found")
         ELSE IF ~rewardData.isActive
         THEN refuse(400, "Reward is not available")
         ELSE IF users[caller].availablePoints < rewardData.pointsCost
         THEN refuse(400, "Insufficient points")
         ELSE IF rewardData.stockQuantity # NULL
                 /\ rewardData.stockQuantity <= 0
         THEN refuse(400, "Reward is out of stock")
         ELSE /\ rewardRedemptions' =
                   Append(rewardRedemptions,
                          redemptionRow(userId, rewardId,
                                        rewardData.pointsCost))
              /\ users' =
                   IF failure = "points" THEN users
                   ELSE [users EXCEPT
                           ![userId] = spendPoints(@, rewardData.pointsCost)]
              /\ rewards' =
                   IF failure = "points" \/ rewardData.stockQuantity = NULL
                   THEN rewards
                   ELSE [rewards EXCEPT ![rewardId].stockQuantity = @ - 1]
              /\ notifications' =
                   IF failure = "none"
                   THEN Append(notifications,
                               notificationRow(userId,
                                               "Reward Redeemed Successfully",
                                               NULL))
                   ELSE notifications
              /\ response' =
                   IF failure = "none"
                   THEN answer(201, "Reward redeemed successfully")
                   ELSE answer(500, "Failed to redeem reward")

(***************************************************************************)
(* SpecRedeem: redeemReward, one request at a time, over reward tables     *)
(***************************************************************************)
RewardCatalogue ==
  {Reward(50, NULL, TRUE), Reward(30, 1, TRUE), Reward(30, 0, TRUE),
   Reward(10, 2, FALSE), Reward(200, NULL, TRUE)}

InitRedeem ==
  /\ users = StatusUsers
  /\ wastePickerProfiles = {}
  /\ pickupRequests = <<>>
  /\ notifications = <<>>
  /\ transactions = <<>>
  /\ \E n \in 1 .. MaxRewards : rewards \in [1 .. n -> RewardCatalogue]
  /\ rewardRedemptions = <<>>
  /\ request = NoRequest
  /\ now = 0
  /\ lastRun = NULL
  /\ accepting = <<>>
  /\ response = NoResponse
  /\ RouteIdle

RedeemReward ==
  /\ \E caller \in UserIds, rewardId \in 1 .. MaxRewards,
        failure \in {"none", "points", "notify"} :
       redeemReward(caller, rewardId, failure)
  /\ UNCHANGED <<wastePickerProfiles, pickupRequests, transactions, request,
                 clockVars, accepting, routeVars>>

NextRedeem == RedeemReward

SpecRedeem == InitRedeem /\ [][NextRedeem]_vars

\* the last call of redeemReward answered 201
Redeemed == response.op = "redeemReward" /\ response.status = 201

\* C20: a successful redeemReward decreases the user's availablePoints by
\* exactly the reward's pointsCost, leaves totalPoints unchanged, decrements
\* the reward's stockQuantity by 1 when stock is tracked, and creates one
\* redemption record with pointsUsed equal to pointsCost and status
\* 'pending'; no other user and no other reward is changed.
ClaimC20_RedeemEffects ==
  Redeemed =>
    LET caller == response.caller
        rewardId == response.rewardId
        before == response.before
        pointsCost == before.rewards[rewardId].pointsCost
    IN  /\ users[caller].availablePoints
             = before.users[caller].availablePoints - pointsCost
        /\ users[caller].totalPoints = before.users[caller].totalPoints
        /\ \A id \in UserIds \ {caller} : users[id] = before.users[id]
        /\ rewards[rewardId].stockQuantity
             = IF before.rewards[rewardId].stockQuantity = NULL THEN NULL
               ELSE before.rewards[rewardId].stockQuantity - 1
        /\ rewards[rewardId].pointsCost = pointsCost
        /\ rewards[rewardId].isActive = before.rewards[rewardId].isActive
        /\ \A r \in (1 .. Len(rewards)) \ {rewardId} :
             rewards[r] = before.rewards[r]
        /\ Len(rewards) = Len(before.rewards)
        /\ rewardRedemptions
             = Append(before.rewardRedemptions,
                      [userId |-> caller, rewardId |-> rewardId,
                       pointsUsed |-> pointsCost, status |-> "pending"])

\* the second redemption of a user: the last item of a tracked stock, after
\* a reward whose stock is not tracked
WitnessC20_TrackedAfterUntracked ==
  /\ Redeemed
  /\ Len(rewardRedemptions) = 2
  /\ response.before.rewards[response.rewardId].stockQuantity = 1
  /\ rewards[response.rewardId].stockQuantity = 0
  /\ rewards[rewardRedemptions[1].rewardId].stockQuantity = NULL
  /\ rewardRedemptions[1].userId = response.caller
  /\ users[response.caller].availablePoints = 20
  /\ users[response.caller].totalPoints = 150

(***************************************************************************)
(* pickupController.js: getPickupRequests                                  *)
(***************************************************************************)
\* a condition that a userId filter switches off
roleConditionUnlessFiltered(caller, q, pickup) ==
  \/ ~Falsy(q.userId)
  \/ IF users[caller].role = "household"
     THEN pickup.requesterId = caller
     ELSE IF users[caller].role = "waste_picker"
     THEN pickup.status = "pending" \/ pickup.wastePickerId = caller
     ELSE TRUE

\* the role-based condition of lines 110-121
roleCondition(caller, q, pickup) ==
  IF users[caller].role = "household"
  THEN pickup.requesterId = caller
  ELSE IF users[caller].role = "waste_picker"
  THEN pickup.status = "pending" \/ pickup.wastePickerId = caller
  ELSE TRUE

\* the filters of lines 105-107: a filter that is absent adds no condition
filterConditions(q, pickup) ==
  /\ q.status # "" => pickup.status = q.status
  /\ q.wasteType # "" => pickup.wasteType = q.wasteType
  /\ ~Falsy(q.userId) => pickup.requesterId = q.userId

\* the ids of s from last to first: orderBy(desc(createdAt))
RECURSIVE newestFirst(_)
newestFirst(s) ==
  IF s = <<>> THEN <<>>
  ELSE <<s[Len(s)]>> \o newestFirst(SubSeq(s, 1, Len(s) - 1))

\* .limit(limit).offset(offset) on the ordered rows
page(s, limit, offset) ==
  SubSeq(s, offset + 1, Min(Len(s), offset + limit))

\* caller: req.user.id; q: req.query with page and limit defaulted
getPickupRequests(caller, q, dbError) ==
  LET offset == (q.page - 1) * q.limit
      Matches(id) == /\ filterConditions(q, pickupRequests[id])
                     /\ roleCondition(caller, q, pickupRequests[id])
      matching == SelectIds(Len(pickupRequests), Matches)
  IN  IF dbError THEN [status |-> 500, data |-> <<>>]
      ELSE [status |-> 200,
            data |-> page(newestFirst(matching), q.limit, offset)]

(***************************************************************************)
(* SpecList: getPickupRequests asked by every user with every filter       *)
(***************************************************************************)
\* users 1 and NumPickers + 2 are households, the others waste pickers
ListUsers ==
  [id \in 1 .. NumPickers + 2 |->
     IF id \in {1, NumPickers + 2} THEN Household
     ELSE Picker("active", North4.latitude, North4.longitude)]

ListedPickup(requesterId, status, wastePickerId, wasteType) ==
  [requesterId |-> requesterId, pickupLatitude |-> Origin.latitude,
   pickupLongitude |-> Origin.longitude, status |-> status,
   wastePickerId |-> wastePickerId, estimatedWeight |-> 250,
   actualWeight |-> NULL, pointsEarned |-> 0, rating |-> NULL,
   wasteType |-> wasteType]

ListCatalogue ==
  {ListedPickup(1, "pending", NULL, "plastic"),
   ListedPickup(1, "accepted", 2, "paper"),
   ListedPickup(NumPickers + 2, "pending", NULL, "paper"),
   ListedPickup(NumPickers + 2, "accepted", 2, "plastic"),
   ListedPickup(NumPickers + 2, "accepted", 3, "plastic"),
   ListedPickup(NumPickers + 2, "completed", 3, "plastic")}

InitList ==
  /\ users = ListUsers
  /\ wastePickerProfiles = {}
  /\ \E n \in 1 .. MaxPickups : pickupRequests \in [1 .. n -> ListCatalogue]
  /\ notifications = <<>>
  /\ AccountIdle
  /\ response = NoResponse
  /\ RouteIdle

GetPickupRequests ==
  /\ response = NoResponse
  /\ \E caller \in DOMAIN users,
        status \in {"", "pending", "accepted"},
        wasteType \in {"", "plastic"},
        userId \in {UNDEFINED, 1, NumPickers + 2},
        paging \in {[page |-> 1, limit |-> 20], [page |-> 2, limit |-> 1]},
        dbError \in BOOLEAN :
       LET q == [status |-> status, wasteType |-> wasteType,
                 userId |-> userId, page |-> paging.page,
                 limit |-> paging.limit]
       IN  response' = [op |-> "getPickupRequests", caller |-> caller,
                        query |-> q, dbError |-> dbError,
                        result |-> getPickupRequests(caller, q, dbError)]
  /\ UNCHANGED <<dbVars, accountVars, routeVars>>

NextList == GetPickupRequests

SpecList == InitList /\ [][NextList]_vars

\* the ids the last call of getPickupRequests returned
ListedIds ==
  {response.result.data[k] : k \in 1 .. Len(response.result.data)}

\* C21: getPickupRequests returns to a household only pickups whose requester
\* is that user, and to a waste picker only pickups that are pending or
\* assigned to that picker, whatever status, wasteType or userId filters the
\* caller supplies.
ClaimC21_RoleScoped ==
  response.op = "getPickupRequests" =>
    \A id \in ListedIds :
      /\ users[response.caller].role = "household" =>
           pickupRequests[id].requesterId = response.caller
      /\ users[response.caller].role = "waste_picker" =>
           \/ pickupRequests[id].status = "pending"
           \/ pickupRequests[id].wastePickerId = response.caller

\* a waste picker who filtered by another user's id and by status 'accepted'
\* got the pickup assigned to them but not the one assigned to another picker
WitnessC21_FilteredByUserId ==
  /\ response.op = "getPickupRequests"
  /\ users[response.caller].role = "waste_picker"
  /\ response.query.userId = NumPickers + 2
  /\ response.query.status = "accepted"
  /\ ListedIds # {}
  /\ \E id \in 1 .. Len(pickupRequests) :
       /\ id \notin ListedIds
       /\ pickupRequests[id].requesterId = NumPickers + 2
       /\ pickupRequests[id].status = "accepted"
       /\ pickupRequests[id].wastePickerId # response.caller


(***************************************************************************)
(* CronJobs.updateRewardStock: the job scheduled at minute 0 of every hour *)
(***************************************************************************)
MaxHours == 3

\* a reward of the catalogue given an expiry date, in hours
Expiring(reward, expiryDate) == [reward EXCEPT !.expiryDate = expiryDate]

\* a comparison that takes a missing expiry date for a date long past
expiredOrUndated(reward, date) ==
  reward.expiryDate = NULL \/ reward.expiryDate < date

\* lt(rewards.expiryDate, new Date()): a NULL expiry date never matches
expired(reward, date) ==
  reward.expiryDate # NULL /\ reward.expiryDate < date

\* db.update(rewards).set({ isActive: false }) where the reward is active and
\* its expiry date lies before date
deactivateExpired(table, date) ==
  [r \in DOMAIN table |->
     IF table[r].isActive /\ expired(table[r], date)
     THEN [table[r] EXCEPT !.isActive = FALSE]
     ELSE table[r]]

\* one run of the scheduled callback; the low-stock query only logs
updateRewardStock ==
  /\ rewards' = deactivateExpired(rewards, now)
  /\ lastRun' = now
  /\ response' = [op |-> "updateRewardStock", at |-> now,
                  before |-> [rewards |-> rewards]]

(***************************************************************************)
(* SpecExpiry: the hourly job and redeemReward over dated rewards          *)
(***************************************************************************)
ExpiryCatalogue ==
  {Reward(50, NULL, TRUE), Expiring(Reward(30, 1, TRUE), 1),
   Expiring(Reward(30, NULL, TRUE), 2), Expiring(Reward(10, 2, FALSE), 1)}

InitExpiry ==
  /\ users = StatusUsers
  /\ wastePickerProfiles = {}
  /\ pickupRequests = <<>>
  /\ notifications = <<>>
  /\ transactions = <<>>
  /\ \E n \in 1 .. MaxRewards : rewards \in [1 .. n -> ExpiryCatalogue]
  /\ rewardRedemptions = <<>>
  /\ request = NoRequest
  /\ now = 0
  /\ lastRun = NULL
  /\ accepting = <<>>
  /\ response = NoResponse
  /\ RouteIdle

\* an hour passes
HourPasses ==
  /\ now < MaxHours
  /\ now' = now + 1
  /\ UNCHANGED <<dbVars, transactions, rewards, rewardRedemptions, request,
                 lastRun, accepting, response, routeVars>>

\* the schedule fires at most once in an hour
UpdateRewardStock ==
  /\ lastRun # now
  /\ updateRewardStock
  /\ UNCHANGED <<dbVars, transactions, rewardRedemptions, request, now,
                 accepting, routeVars>>

NextExpiry == HourPasses \/ UpdateRewardStock \/ RedeemReward

SpecExpiry == InitExpiry /\ [][NextExpiry]_vars

\* the reward had passed its expiry date when the job last ran
ExpiredAtLastRun(reward) ==
  /\ lastRun # NULL
  /\ reward.expiryDate # NULL
  /\ reward.expiryDate < lastRun

NotCalled == [stage |-> "idle", id |-> 0, status |-> 0]

\* the handler up to the end of its SELECT and the checks made on the row it
\* read (lines 210-236); the row is taken as it is when the SELECT runs
acceptSelect(caller, id) ==
  LET found == id \in 1 .. Len(pickupRequests)
      answered(status) ==
        [stage |-> "answered", id |-> id, status |-> status]
  IN  /\ accepting[caller].stage = "idle"
      /\ accepting' =
           [accepting EXCEPT
              ![caller] =
                IF users[caller].role # "waste_picker" THEN answered(403)
                ELSE IF ~found THEN answered(404)
                ELSE IF pickupRequests[id].status # "pending"
                THEN answered(400)
                ELSE [stage |-> "selected", id |-> id, status |-> 0]]
      /\ UNCHANGED <<pickupRequests, notifications>>

\* the UPDATE of lines 238-247: its WHERE names the id only
acceptUpdate(caller) ==
  LET wastePickerId == caller
      id == accepting[caller].id
  IN  /\ accepting[caller].stage = "selected"
      /\ pickupRequests' =
           [pickupRequests EXCEPT ![id].wastePickerId = wastePickerId,
                                  ![id].status = "accepted"]
      /\ accepting' = [accepting EXCEPT ![caller].stage = "updated"]
      /\ UNCHANGED notifications

\* the notification and the answer (lines 249-273); failure: the e-mail of
\* sendPickupAcceptedNotification rejects
acceptRespond(caller, failure) ==
  LET id == accepting[caller].id
  IN  /\ accepting[caller].stage = "updated"
      /\ notifications' =
           Append(notifications,
                  notificationRow(pickupRequests[id].requesterId,
                                  "Pickup Request Accepted", id))
      /\ accepting' =
           [accepting EXCEPT
              ![caller] = [stage |-> "answered", id |-> id,
                           status |-> IF failure THEN 500 ELSE 200]]
      /\ UNCHANGED pickupRequests

(***************************************************************************)
(* SpecAcceptRace: every user makes at most one acceptPickupRequest call,  *)
(* and the calls' steps interleave                                         *)
(***************************************************************************)
InitAcceptRace ==
  /\ users = AcceptUsers
  /\ wastePickerProfiles = {}
  /\ \E n \in 1 .. MaxPickups : pickupRequests \in [1 .. n -> AcceptCatalogue]
  /\ notifications = <<>>
  /\ transactions = <<>>
  /\ rewards = <<>>
  /\ rewardRedemptions = <<>>
  /\ request = NoRequest
  /\ now = 0
  /\ lastRun = NULL
  /\ accepting = [caller \in UserIds |-> NotCalled]
  /\ response = NoResponse
  /\ RouteIdle

raceFrame ==
  UNCHANGED <<users, wastePickerProfiles, transactions, rewards,
              rewardRedemptions, request, clockVars, response, routeVars>>

AcceptSelect ==
  /\ \E caller \in UserIds, id \in 1 .. MaxPickups : acceptSelect(caller, id)
  /\ raceFrame

AcceptUpdate ==
  /\ \E caller \in UserIds : acceptUpdate(caller)
  /\ raceFrame

AcceptRespond ==
  /\ \E caller \in UserIds, failure \in BOOLEAN :
       acceptRespond(caller, failure)
  /\ raceFrame

NextAcceptRace == AcceptSelect \/ AcceptUpdate \/ AcceptRespond

SpecAcceptRace == InitAcceptRace /\ [][NextAcceptRace]_vars

\* the callers whose call on pickup id was answered with success
Winners(id) ==
  {caller \in DOMAIN accepting :
     /\ accepting[caller].stage = "answered"
     /\ accepting[caller].id = id
     /\ accepting[caller].status = 200}

\* C23: of the acceptPickupRequest calls made on one pending pickup, at most
\* one is answered with success, and the pickup's stored wastePickerId is the
\* caller of that one.
ClaimC23_OneWinner ==
  \A id \in DOMAIN pickupRequests :
    /\ Cardinality(Winners(id)) <= 1
    /\ \A caller \in Winners(id) : pickupRequests[id].wastePickerId = caller


(***************************************************************************)
(* pickupController.js: cancelPickupRequest                                *)
(***************************************************************************)
\* caller: req.user.id; id: req.params.id
cancelPickupRequest(caller, id) ==
  LET found == id \in 1 .. Len(pickupRequests)
      pickupData == pickupRequests[id]
      answer(status) ==
        [op |-> "cancelPickupRequest", caller |-> caller, id |-> id,
         status |-> status,
         before |-> [users |-> users, pickupRequests |-> pickupRequests,
                     transactions |-> transactions]]
  IN  /\ response' =
           IF ~found THEN answer(404)
           ELSE IF /\ users[caller].role = "household"
                   /\ pickupData.requesterId # caller
           THEN answer(403)
           ELSE IF pickupData.status = "completed" THEN answer(400)
           ELSE answer(200)
      /\ pickupRequests' =
           IF response'.status = 200
           THEN [pickupRequests EXCEPT ![id].status = "cancelled"]
           ELSE pickupRequests
      /\ UNCHANGED <<users, transactions, notifications>>

(***************************************************************************)
(* SpecCredit: updatePickupStatus and cancelPickupRequest calls in any     *)
(* order on the pickups of SpecStatus                                      *)
(***************************************************************************)
CancelPickupRequest ==
  /\ \E caller \in UserIds, id \in 1 .. MaxPickups :
       cancelPickupRequest(caller, id)
  /\ UNCHANGED <<wastePickerProfiles, rewards, rewardRedemptions, request,
                 clockVars, accepting, routeVars>>

NextCredit == UpdatePickupStatus \/ CancelPickupRequest

SpecCredit == InitStatus /\ [][NextCredit]_vars

\* the transactions recorded for pickup id
TransactionsOf(id) ==
  {i \in DOMAIN transactions : transactions[i].pickupRequestId = id}

\* the points of the first transaction recorded for each pickup of ids
RECURSIVE pointsOfOneCredit(_)
pointsOfOneCredit(ids) ==
  IF ids = {} THEN 0
  ELSE LET id == CHOOSE x \in ids : TRUE
           first == CHOOSE i \in TransactionsOf(id) :
                      \A j \in TransactionsOf(id) : i <= j
       IN  (IF TransactionsOf(id) = {} THEN 0 ELSE transactions[first].points)
           + pointsOfOneCredit(ids \ {id})

\* C24: whatever updatePickupStatus and cancelPickupRequest calls are made,
\* a pickup has at most one points transaction, and its requester holds the
\* points of one completion of each pickup and no more.
ClaimC24_CreditedOnce ==
  /\ \A id \in DOMAIN pickupRequests : Cardinality(TransactionsOf(id)) <= 1
  /\ users[1].totalPoints - StatusUsers[1].totalPoints
       = pointsOfOneCredit(DOMAIN pickupRequests)
  /\ users[1].availablePoints - StatusUsers[1].availablePoints
       = pointsOfOneCredit(DOMAIN pickupRequests)

====
